---- MODULE Spec2Model ----
(***************************************************************************)
(* Graph-Algorithm-Visualizer (src/scripts.js): the graph store, the three *)
(* traversal generators (bfs, dfs, dijkstra) and the animation controller  *)
(* (startTraversal, runAnimation, executeStep, togglePause, stepTraversal, *)
(* resetTraversal, clearGraph).                                            *)
(*                                                                         *)
(* Rendering, canvas geometry and the edge-creation selection are not      *)
(* modelled: they never feed back into the state below.  A handler runs to *)
(* completion together with the microtasks it queues (an await of an       *)
(* already resolved promise), so one action is one handler or one timer    *)
(* wake-up of a runAnimation loop.                                         *)
(***************************************************************************)
EXTENDS Integers, Sequences, FiniteSets, TLC

VARIABLES nodes, edges, adjacencyList, startNode, nodeIdCounter,
          graphType, algorithm,
          isRunning, isPaused, animationQueue, currentStep, orderList,
          loops

vars == <<nodes, edges, adjacencyList, startNode, nodeIdCounter,
          graphType, algorithm,
          isRunning, isPaused, animationQueue, currentStep, orderList,
          loops>>

graphVars == <<nodes, edges, adjacencyList, startNode, nodeIdCounter>>
selectVars == <<graphType, algorithm>>
playVars == <<isRunning, isPaused, animationQueue, currentStep, orderList, loops>>

(***************************************************************************)
(* Bounds of the model.                                                    *)
(***************************************************************************)
\* ids handed out between two clearGraph calls (addNode stops at this many)
MaxId == 2
\* edges stored at once (createEdge stops at this many)
MaxEdges == 2
\* runAnimation loops with a pending timer at once
MaxLoops == 2
\* the heavier of the two edge weights the inputs are drawn from
MaxWeight == 4
\* nodes of the largest graph on which setStartNode and deleteNode are tried
MaxEditNodes == 3
\* nodes and createEdge requests of the graphs the playback runs start from
PlayNodes == 3
PlayEdges == 3
\* nodes and createEdge requests of the graphs the generators are run on
TravNodes == 4
TravEdges == 3

(***************************************************************************)
(* Program constants.                                                      *)
(***************************************************************************)
\* Infinity, the distance of a node no run has reached (compared by Less)
Infinity == -1
\* null, the start designation when no node is designated
Null == -2
\* the weight createEdge gets outside the weighted algorithm
DefaultWeight == 1

Weights == {DefaultWeight, MaxWeight}
GraphTypes == {"directed", "undirected"}
Algorithms == {"bfs", "dfs", "dijkstra"}

\* a < b over numbers and Infinity
Less(a, b) == a # Infinity /\ (b = Infinity \/ a < b)

(***************************************************************************)
(* Graph store.                                                            *)
(***************************************************************************)
NodeIds(ns) == {ns[i].id : i \in DOMAIN ns}

\* nodes.find(n => n.id === id): the index of the node, 0 when there is none
FindNode(ns, id) ==
    IF \E i \in DOMAIN ns : ns[i].id = id
    THEN CHOOSE i \in DOMAIN ns :
            ns[i].id = id /\ \A j \in DOMAIN ns : ns[j].id = id => i <= j
    ELSE 0

RECURSIVE FilterSeq(_, _)
\* the subsequence of s whose elements are in the set keep
FilterSeq(s, keep) ==
    IF s = <<>> THEN <<>>
    ELSE IF Head(s) \in keep
         THEN <<Head(s)>> \o FilterSeq(Tail(s), keep)
         ELSE FilterSeq(Tail(s), keep)

\* the label addNode derives from the number of nodes present
Label(len) == <<65 + (len % 26), IF len >= 26 THEN len \div 26 ELSE 0>>

NewNode(ns, id) ==
    [id |-> id, state |-> "unvisited", distance |-> Infinity, label |-> Label(Len(ns))]

AddNodeNodes(ns, id) == Append(ns, NewNode(ns, id))
AddNodeAdj(adj, id) == [k \in DOMAIN adj \cup {id} |-> IF k = id THEN <<>> ELSE adj[k]]

\* the edge an event or a createEdge request names, under the direction mode
EdgeMatches(e, from, to, gt) ==
    \/ e.from = from /\ e.to = to
    \/ gt = "undirected" /\ e.from = to /\ e.to = from

\* edges.find(...): the index of the first matching edge, 0 when there is none
FindEdge(es, from, to, gt) ==
    IF \E i \in DOMAIN es : EdgeMatches(es[i], from, to, gt)
    THEN CHOOSE i \in DOMAIN es :
            /\ EdgeMatches(es[i], from, to, gt)
            /\ \A j \in DOMAIN es : EdgeMatches(es[j], from, to, gt) => i <= j
    ELSE 0

CreateEdgeEdges(es, from, to, weight, gt) ==
    IF FindEdge(es, from, to, gt) = 0
    THEN Append(es, [from |-> from, to |-> to, weight |-> weight, state |-> "default"])
    ELSE es

CreateEdgeAdj(adj, es, from, to, weight, gt) ==
    IF FindEdge(es, from, to, gt) = 0
    THEN [k \in DOMAIN adj |->
            IF k = from /\ k = to /\ gt = "undirected"
            THEN adj[k] \o <<[node |-> to, weight |-> weight], [node |-> from, weight |-> weight]>>
            ELSE IF k = from THEN Append(adj[k], [node |-> to, weight |-> weight])
            ELSE IF k = to /\ gt = "undirected"
                 THEN Append(adj[k], [node |-> from, weight |-> weight])
            ELSE adj[k]]
    ELSE adj

DeleteNodeNodes(ns, id) == FilterSeq(ns, {n \in {ns[i] : i \in DOMAIN ns} : n.id # id})
\* DeleteNodeEdges that looks at the from endpoint only
DeleteNodeEdgesFromOnly(es, id) ==
    FilterSeq(es, {e \in {es[i] : i \in DOMAIN es} : e.from # id})

DeleteNodeEdges(es, id) ==
    FilterSeq(es, {e \in {es[i] : i \in DOMAIN es} : e.from # id /\ e.to # id})
DeleteNodeAdj(adj, id) ==
    [k \in DOMAIN adj \ {id} |->
        FilterSeq(adj[k], {n \in {adj[k][i] : i \in DOMAIN adj[k]} : n.node # id})]

(***************************************************************************)
(* Traversal engine: the event sequence each generator yields, in order.   *)
(***************************************************************************)
\* adjacencyList.get(current) || []
Neighbors(adj, current) == IF current \in DOMAIN adj THEN adj[current] ELSE <<>>

\* [...neighbors] without its reverse()
ReverseNothing(s) == s

\* [...neighbors].reverse()
Reverse(s) == IF s = <<>> THEN <<>> ELSE [i \in 1..Len(s) |-> s[Len(s) + 1 - i]]

RECURSIVE EnqueueEventsAll(_, _, _)
\* EnqueueEvents without the visited test: every neighbour is offered
EnqueueEventsAll(neighbors, visited, current) ==
    IF neighbors = <<>> THEN <<>>
    ELSE <<[type |-> "enqueue", node |-> Head(neighbors).node,
            edge |-> [from |-> current, to |-> Head(neighbors).node]]>>
            \o EnqueueEventsAll(Tail(neighbors), visited, current)

RECURSIVE EnqueueEventsFirstOnly(_, _, _)
\* EnqueueEvents with a loop that leaves after the first neighbour it offers
EnqueueEventsFirstOnly(neighbors, visited, current) ==
    IF neighbors = <<>> THEN <<>>
    ELSE LET neighbor == Head(neighbors).node
         IN  IF neighbor \notin visited
             THEN <<[type |-> "enqueue", node |-> neighbor,
                     edge |-> [from |-> current, to |-> neighbor]]>>
             ELSE EnqueueEventsFirstOnly(Tail(neighbors), visited, current)

RECURSIVE EnqueueEvents(_, _, _)
\* the enqueue events of one visit of bfs or dfs: one per entry not yet visited
EnqueueEvents(neighbors, visited, current) ==
    IF neighbors = <<>> THEN <<>>
    ELSE LET neighbor == Head(neighbors).node
             rest == EnqueueEvents(Tail(neighbors), visited, current)
         IN  IF neighbor \notin visited
             THEN <<[type |-> "enqueue", node |-> neighbor,
                     edge |-> [from |-> current, to |-> neighbor]]>> \o rest
             ELSE rest

EventNodes(events) ==
    IF events = <<>> THEN <<>> ELSE [i \in 1..Len(events) |-> events[i].node]

RECURSIVE BfsLoopPop(_, _, _, _)
\* BfsLoop taking the newest frontier entry (queue.pop()) instead of the oldest
BfsLoopPop(adj, visited, queue, out) ==
    IF queue = <<>> THEN out
    ELSE LET current == queue[Len(queue)]
             rest == SubSeq(queue, 1, Len(queue) - 1)
         IN  IF current \in visited THEN BfsLoopPop(adj, visited, rest, out)
             ELSE LET seen == visited \cup {current}
                      offered == EnqueueEvents(Neighbors(adj, current), seen, current)
                  IN  BfsLoopPop(adj, seen, rest \o EventNodes(offered),
                                 out \o <<[type |-> "visit", node |-> current]>> \o offered)

RECURSIVE BfsLoop(_, _, _, _)
BfsLoop(adj, visited, queue, out) ==
    IF queue = <<>> THEN out
    ELSE LET current == Head(queue)
             rest == Tail(queue)
         IN  IF current \in visited THEN BfsLoop(adj, visited, rest, out)
             ELSE LET seen == visited \cup {current}
                      offered == EnqueueEvents(Neighbors(adj, current), seen, current)
                  IN  BfsLoop(adj, seen, rest \o EventNodes(offered),
                              out \o <<[type |-> "visit", node |-> current]>> \o offered)

bfs(adj, start) == BfsLoop(adj, {}, <<start>>, <<>>)

RECURSIVE DfsLoop(_, _, _, _)
DfsLoop(adj, visited, stack, out) ==
    IF stack = <<>> THEN out
    ELSE LET current == stack[Len(stack)]
             rest == SubSeq(stack, 1, Len(stack) - 1)
         IN  IF current \in visited THEN DfsLoop(adj, visited, rest, out)
             ELSE LET seen == visited \cup {current}
                      offered == EnqueueEvents(Reverse(Neighbors(adj, current)), seen, current)
                  IN  DfsLoop(adj, seen, rest \o EventNodes(offered),
                              out \o <<[type |-> "visit", node |-> current]>> \o offered)

dfs(adj, start) == DfsLoop(adj, {}, <<start>>, <<>>)

RECURSIVE InsertByDist(_, _)
\* e placed after every entry of the sorted sequence whose dist is <= its own
InsertByDist(sorted, e) ==
    IF sorted = <<>> THEN <<e>>
    ELSE IF Head(sorted).dist <= e.dist
         THEN <<Head(sorted)>> \o InsertByDist(Tail(sorted), e)
         ELSE <<e>> \o sorted

\* SortByDist that leaves the frontier in insertion order
SortByDistUnsorted(pq) == pq

RECURSIVE SortByDist(_)
\* pq.sort((a, b) => a.dist - b.dist): ascending by dist, equal entries keep their order
SortByDist(pq) ==
    IF pq = <<>> THEN <<>>
    ELSE InsertByDist(SortByDist(SubSeq(pq, 1, Len(pq) - 1)), pq[Len(pq)])

RECURSIVE Relax(_, _, _, _, _, _, _)
\* the for loop over the neighbours of the node dijkstra has just visited
Relax(neighbors, visited, current, dist, distances, pq, out) ==
    IF neighbors = <<>> THEN [distances |-> distances, pq |-> pq, out |-> out]
    ELSE LET neighbor == Head(neighbors).node
             newDist == dist + Head(neighbors).weight
         IN  IF /\ neighbor \notin visited
                /\ neighbor \in DOMAIN distances
                /\ Less(newDist, distances[neighbor])
             THEN Relax(Tail(neighbors), visited, current, dist,
                        [distances EXCEPT ![neighbor] = newDist],
                        Append(pq, [node |-> neighbor, dist |-> newDist]),
                        Append(out, [type |-> "enqueue", node |-> neighbor,
                                     edge |-> [from |-> current, to |-> neighbor],
                                     distance |-> newDist]))
             ELSE Relax(Tail(neighbors), visited, current, dist, distances, pq, out)

RECURSIVE DijkstraLoop(_, _, _, _, _)
DijkstraLoop(adj, visited, distances, pq, out) ==
    IF pq = <<>> THEN out
    ELSE LET sorted == SortByDist(pq)
             current == Head(sorted).node
             dist == Head(sorted).dist
             rest == Tail(sorted)
         IN  IF current \in visited THEN DijkstraLoop(adj, visited, distances, rest, out)
             ELSE LET seen == visited \cup {current}
                      r == Relax(Neighbors(adj, current), seen, current, dist, distances, rest,
                                 Append(out, [type |-> "visit", node |-> current,
                                              distance |-> dist]))
                  IN  DijkstraLoop(adj, seen, r.distances, r.pq, r.out)

\* dijkstra that takes the tentative distances from the distance fields of the nodes
dijkstraFromFields(ns, adj, start) ==
    DijkstraLoop(adj, {},
                 [k \in NodeIds(ns) \cup {start} |->
                     IF k = start THEN 0 ELSE ns[FindNode(ns, k)].distance],
                 <<[node |-> start, dist |-> 0]>>,
                 <<[type |-> "setDistance", node |-> start, distance |-> 0]>>)

dijkstra(ns, adj, start) ==
    DijkstraLoop(adj, {},
                 [k \in NodeIds(ns) \cup {start} |-> IF k = start THEN 0 ELSE Infinity],
                 <<[node |-> start, dist |-> 0]>>,
                 <<[type |-> "setDistance", node |-> start, distance |-> 0]>>)

\* the switch on algorithmSelect.value and the loop that drains the generator
Materialize(algo, ns, adj, start) ==
    CASE algo = "bfs" -> bfs(adj, start)
      [] algo = "dfs" -> dfs(adj, start)
      [] algo = "dijkstra" -> dijkstra(ns, adj, start)

(***************************************************************************)
(* Event application (executeStep) and reset.                              *)
(***************************************************************************)
\* executeStep without its demotion pass
DemoteNothing(ns) == ns

\* nodes.forEach(n => { if (n.state === 'current') n.state = 'visited' })
Demote(ns) ==
    IF ns = <<>> THEN <<>>
    ELSE [i \in DOMAIN ns |->
            IF ns[i].state = "current" THEN [ns[i] EXCEPT !.state = "visited"] ELSE ns[i]]

HasDistance(step) == "distance" \in DOMAIN step
HasEdge(step) == "edge" \in DOMAIN step

ExecuteStepNode(n, step) ==
    CASE step.type = "visit" ->
            [n EXCEPT !.state = "current",
                      !.distance = IF HasDistance(step) THEN step.distance ELSE @]
      [] step.type = "enqueue" ->
            IF n.state = "unvisited"
            THEN [n EXCEPT !.state = "inQueue",
                           !.distance = IF HasDistance(step) THEN step.distance ELSE @]
            ELSE n
      [] step.type = "setDistance" -> [n EXCEPT !.distance = step.distance]

ExecuteStepNodes(ns, step) ==
    LET i == FindNode(ns, step.node)
        demoted == Demote(ns)
    IN  IF i = 0 THEN demoted
        ELSE [demoted EXCEPT ![i] = ExecuteStepNode(demoted[i], step)]

ExecuteStepEdges(es, step, gt) ==
    IF step.type \in {"visit", "enqueue"} /\ HasEdge(step)
    THEN LET i == FindEdge(es, step.edge.from, step.edge.to, gt)
         IN  IF i = 0 THEN es
             ELSE [es EXCEPT ![i].state =
                        IF step.type = "visit" THEN "visited" ELSE "active"]
    ELSE es

\* addToTraversalOrder(node.label), called for a visit of a node that exists
ExecuteStepOrder(log, ns, step) ==
    LET i == FindNode(ns, step.node)
    IN  IF step.type = "visit" /\ i # 0 THEN Append(log, ns[i].label) ELSE log

ResetNodes(ns) ==
    IF ns = <<>> THEN <<>>
    ELSE [i \in DOMAIN ns |-> [ns[i] EXCEPT !.state = "unvisited", !.distance = Infinity]]
ResetEdges(es) ==
    IF es = <<>> THEN <<>>
    ELSE [i \in DOMAIN es |-> [es[i] EXCEPT !.state = "default"]]

(***************************************************************************)
(* Playback loops.  A live runAnimation call is a pending timer; it has no *)
(* state of its own.  loops counts them: "current" are the loops armed     *)
(* since the last resetTraversal, "stale" the loops armed before it.       *)
(***************************************************************************)
LoopKinds == {"current", "stale"}
NoLoops == [current |-> 0, stale |-> 0]
LiveLoops(l) == l.current + l.stale
\* resetTraversal cancels no timer: the loops of the run it ends stay pending
Outlive(l) == [current |-> 0, stale |-> l.current + l.stale]

(***************************************************************************)
(* Initial state: the module's top-level declarations.                     *)
(***************************************************************************)
EmptyAdj == [k \in {} |-> <<>>]

Init ==
    /\ nodes = <<>>
    /\ edges = <<>>
    /\ adjacencyList = EmptyAdj
    /\ startNode = Null
    /\ nodeIdCounter = 0
    /\ graphType \in GraphTypes
    /\ algorithm \in Algorithms
    /\ isRunning = FALSE
    /\ isPaused = FALSE
    /\ animationQueue = <<>>
    /\ currentStep = 0
    /\ orderList = <<>>
    /\ loops = NoLoops

\* the nodes and the adjacency projection after n addNode calls on the empty graph
RECURSIVE BuildNodes(_)
BuildNodes(n) == IF n = 0 THEN <<>> ELSE AddNodeNodes(BuildNodes(n - 1), n - 1)

RECURSIVE BuildAdj(_)
BuildAdj(n) == IF n = 0 THEN EmptyAdj ELSE AddNodeAdj(BuildAdj(n - 1), n - 1)

(***************************************************************************)
(* Editing operations.                                                     *)
(***************************************************************************)
AddNode ==
    /\ nodeIdCounter < MaxId
    /\ nodes' = AddNodeNodes(nodes, nodeIdCounter)
    /\ adjacencyList' = AddNodeAdj(adjacencyList, nodeIdCounter)
    /\ nodeIdCounter' = nodeIdCounter + 1
    /\ UNCHANGED <<edges, startNode, selectVars, playVars>>

CreateEdge ==
    \E from \in NodeIds(nodes), to \in NodeIds(nodes), weight \in Weights :
        /\ from # to
        /\ FindEdge(edges, from, to, graphType) # 0 \/ Len(edges) < MaxEdges
        /\ edges' = CreateEdgeEdges(edges, from, to, weight, graphType)
        /\ adjacencyList' = CreateEdgeAdj(adjacencyList, edges, from, to, weight, graphType)
        /\ UNCHANGED <<nodes, startNode, nodeIdCounter, selectVars, playVars>>

SetStartNode ==
    \E id \in NodeIds(nodes) :
        /\ Len(nodes) <= MaxEditNodes
        /\ startNode' = id
        /\ UNCHANGED <<nodes, edges, adjacencyList, nodeIdCounter, selectVars, playVars>>

DeleteNode ==
    \E id \in NodeIds(nodes) :
        /\ Len(nodes) <= MaxEditNodes
        /\ nodes' = DeleteNodeNodes(nodes, id)
        /\ edges' = DeleteNodeEdges(edges, id)
        /\ adjacencyList' = DeleteNodeAdj(adjacencyList, id)
        /\ startNode' = IF startNode = id THEN Null ELSE startNode
        /\ UNCHANGED <<nodeIdCounter, selectVars, playVars>>

\* the user picks another entry of the graph-type select
SetGraphType ==
    \E gt \in GraphTypes \ {graphType} :
        /\ graphType' = gt
        /\ UNCHANGED <<graphVars, algorithm, playVars>>

\* the user picks another entry of the algorithm select
SetAlgorithm ==
    \E algo \in Algorithms \ {algorithm} :
        /\ algorithm' = algo
        /\ UNCHANGED <<graphVars, graphType, playVars>>

(***************************************************************************)
(* Animation controller.                                                   *)
(***************************************************************************)
\* ResetTraversal without its currentStep = 0
ResetTraversalKeepsCursor ==
    /\ isRunning' = FALSE
    /\ isPaused' = FALSE
    /\ animationQueue' = <<>>
    /\ nodes' = ResetNodes(nodes)
    /\ edges' = ResetEdges(edges)
    /\ orderList' = <<>>
    /\ loops' = Outlive(loops)
    /\ UNCHANGED <<currentStep, adjacencyList, startNode, nodeIdCounter, selectVars>>

ResetTraversal ==
    /\ isRunning' = FALSE
    /\ isPaused' = FALSE
    /\ currentStep' = 0
    /\ animationQueue' = <<>>
    /\ nodes' = ResetNodes(nodes)
    /\ edges' = ResetEdges(edges)
    /\ orderList' = <<>>
    /\ loops' = Outlive(loops)
    /\ UNCHANGED <<adjacencyList, startNode, nodeIdCounter, selectVars>>

ClearGraph ==
    /\ nodes' = <<>>
    /\ edges' = <<>>
    /\ adjacencyList' = EmptyAdj
    /\ startNode' = Null
    /\ nodeIdCounter' = 0
    /\ isRunning' = FALSE
    /\ isPaused' = FALSE
    /\ currentStep' = 0
    /\ animationQueue' = <<>>
    /\ orderList' = <<>>
    /\ loops' = Outlive(loops)
    /\ UNCHANGED selectVars

\* the number of positions in sampleNodes
sampleNodes == 8

\* [from, to, weight]: indexes into nodes and the weight of the edge
sampleEdges ==
    <<<<0, 1, 4>>, <<0, 2, 2>>,
      <<1, 3, 5>>, <<1, 4, 1>>,
      <<2, 4, 3>>, <<2, 5, 6>>,
      <<2, 6, 2>>, <<4, 5, 2>>,
      <<6, 7, 4>>, <<5, 7, 3>>>>

RECURSIVE SampleEdgesLoop(_, _, _, _, _)
\* sampleEdges.forEach: createEdge(nodes[from], nodes[to], weight) for each entry
SampleEdgesLoop(reqs, ns, es, adj, gt) ==
    IF reqs = <<>> THEN [edges |-> es, adj |-> adj]
    ELSE SampleEdgesLoop(Tail(reqs), ns,
                         CreateEdgeEdges(es, ns[Head(reqs)[1] + 1].id,
                                         ns[Head(reqs)[2] + 1].id, Head(reqs)[3], gt),
                         CreateEdgeAdj(adj, es, ns[Head(reqs)[1] + 1].id,
                                       ns[Head(reqs)[2] + 1].id, Head(reqs)[3], gt),
                         gt)

\* the graph store after the addNode and createEdge calls of loadSampleGraph
\* on the cleared graph, under each direction mode
SampleGraph ==
    [directed |->
        [nodes |-> BuildNodes(sampleNodes),
         store |-> SampleEdgesLoop(sampleEdges, BuildNodes(sampleNodes), <<>>,
                                   BuildAdj(sampleNodes), "directed")],
     undirected |->
        [nodes |-> BuildNodes(sampleNodes),
         store |-> SampleEdgesLoop(sampleEdges, BuildNodes(sampleNodes), <<>>,
                                   BuildAdj(sampleNodes), "undirected")]]

\* loadSampleGraph: clearGraph, then the addNode and createEdge calls of the
\* sample and the start designation of its first node
LoadSampleGraph ==
    /\ nodes' = SampleGraph[graphType].nodes
    /\ edges' = SampleGraph[graphType].store.edges
    /\ adjacencyList' = SampleGraph[graphType].store.adj
    /\ startNode' = SampleGraph[graphType].nodes[1].id
    /\ nodeIdCounter' = sampleNodes
    /\ isRunning' = FALSE
    /\ isPaused' = FALSE
    /\ currentStep' = 0
    /\ animationQueue' = <<>>
    /\ orderList' = <<>>
    /\ loops' = Outlive(loops)
    /\ UNCHANGED selectVars

\* StartTraversal that calls resetTraversal before it tests startNode
StartTraversalResetsFirst ==
    IF startNode = Null
    THEN /\ isRunning' = FALSE
         /\ isPaused' = FALSE
         /\ currentStep' = 0
         /\ animationQueue' = <<>>
         /\ nodes' = ResetNodes(nodes)
         /\ edges' = ResetEdges(edges)
         /\ orderList' = <<>>
         /\ loops' = Outlive(loops)
         /\ UNCHANGED <<adjacencyList, startNode, nodeIdCounter, selectVars>>
    ELSE IF isRunning
    THEN UNCHANGED vars
    ELSE LET queue == Materialize(algorithm, nodes, adjacencyList, startNode)
             ns == ResetNodes(nodes)
             es == ResetEdges(edges)
         IN  /\ LiveLoops(loops) < MaxLoops
             /\ animationQueue' = queue
             /\ isPaused' = FALSE
             /\ IF 0 < Len(queue)
                THEN /\ nodes' = ExecuteStepNodes(ns, queue[1])
                     /\ edges' = ExecuteStepEdges(es, queue[1], graphType)
                     /\ orderList' = ExecuteStepOrder(<<>>, ns, queue[1])
                     /\ currentStep' = 1
                     /\ isRunning' = TRUE
                     /\ loops' = [current |-> 1, stale |-> LiveLoops(loops)]
                ELSE /\ nodes' = ns
                     /\ edges' = es
                     /\ orderList' = <<>>
                     /\ currentStep' = 0
                     /\ isRunning' = FALSE
                     /\ loops' = Outlive(loops)
             /\ UNCHANGED <<adjacencyList, startNode, nodeIdCounter, selectVars>>

\* startTraversal, with the first pass of runAnimation, which it runs before
\* it returns: the first event is applied at once and the loop arms its timer
StartTraversal ==
    IF startNode = Null \/ isRunning
    THEN UNCHANGED vars
    ELSE LET queue == Materialize(algorithm, nodes, adjacencyList, startNode)
             ns == ResetNodes(nodes)
             es == ResetEdges(edges)
         IN  /\ LiveLoops(loops) < MaxLoops
             /\ animationQueue' = queue
             /\ isPaused' = FALSE
             /\ IF 0 < Len(queue)
                THEN /\ nodes' = ExecuteStepNodes(ns, queue[1])
                     /\ edges' = ExecuteStepEdges(es, queue[1], graphType)
                     /\ orderList' = ExecuteStepOrder(<<>>, ns, queue[1])
                     /\ currentStep' = 1
                     /\ isRunning' = TRUE
                     /\ loops' = [current |-> 1, stale |-> LiveLoops(loops)]
                ELSE /\ nodes' = ns
                     /\ edges' = es
                     /\ orderList' = <<>>
                     /\ currentStep' = 0
                     /\ isRunning' = FALSE
                     /\ loops' = Outlive(loops)
             /\ UNCHANGED <<adjacencyList, startNode, nodeIdCounter, selectVars>>

\* Wake without the isPaused test of the loop body
WakeIgnoresPause(k) ==
    /\ loops[k] > 0
    /\ IF ~(currentStep < Len(animationQueue) /\ isRunning)
       THEN /\ loops' = [loops EXCEPT ![k] = @ - 1]
            /\ isRunning' = IF currentStep >= Len(animationQueue) THEN FALSE ELSE isRunning
            /\ UNCHANGED <<nodes, edges, orderList, currentStep>>
       ELSE /\ nodes' = ExecuteStepNodes(nodes, animationQueue[currentStep + 1])
            /\ edges' = ExecuteStepEdges(edges, animationQueue[currentStep + 1], graphType)
            /\ orderList' = ExecuteStepOrder(orderList, nodes, animationQueue[currentStep + 1])
            /\ currentStep' = currentStep + 1
            /\ UNCHANGED <<isRunning, loops>>
    /\ UNCHANGED <<adjacencyList, startNode, nodeIdCounter, selectVars,
                   isPaused, animationQueue>>

\* a pending timer of a runAnimation loop of kind k fires: the loop tests its
\* while condition, then leaves, polls again (paused) or applies one event
Wake(k) ==
    /\ loops[k] > 0
    /\ IF ~(currentStep < Len(animationQueue) /\ isRunning)
       THEN /\ loops' = [loops EXCEPT ![k] = @ - 1]
            /\ isRunning' = IF currentStep >= Len(animationQueue) THEN FALSE ELSE isRunning
            /\ UNCHANGED <<nodes, edges, orderList, currentStep>>
       ELSE IF isPaused
       THEN UNCHANGED <<nodes, edges, orderList, currentStep, isRunning, loops>>
       ELSE /\ nodes' = ExecuteStepNodes(nodes, animationQueue[currentStep + 1])
            /\ edges' = ExecuteStepEdges(edges, animationQueue[currentStep + 1], graphType)
            /\ orderList' = ExecuteStepOrder(orderList, nodes, animationQueue[currentStep + 1])
            /\ currentStep' = currentStep + 1
            /\ UNCHANGED <<isRunning, loops>>
    /\ UNCHANGED <<adjacencyList, startNode, nodeIdCounter, selectVars,
                   isPaused, animationQueue>>

RunAnimation == \E k \in LoopKinds : Wake(k)

TogglePause ==
    /\ isPaused' = ~isPaused
    /\ UNCHANGED <<graphVars, selectVars, isRunning, animationQueue, currentStep,
                   orderList, loops>>

\* StepTraversal without its currentStep++
StepTraversalKeepsCursor ==
    LET fresh == Len(animationQueue) = 0 /\ startNode # Null
        queue == IF fresh THEN Materialize(algorithm, nodes, adjacencyList, startNode)
                 ELSE animationQueue
        ns == IF fresh THEN ResetNodes(nodes) ELSE nodes
        es == IF fresh THEN ResetEdges(edges) ELSE edges
        log == IF fresh THEN <<>> ELSE orderList
        step == IF fresh THEN 0 ELSE currentStep
    IN  /\ animationQueue' = queue
        /\ isRunning' = IF fresh THEN TRUE ELSE isRunning
        /\ isPaused' = IF fresh THEN TRUE ELSE isPaused
        /\ loops' = IF fresh THEN Outlive(loops) ELSE loops
        /\ IF step < Len(queue)
           THEN /\ nodes' = ExecuteStepNodes(ns, queue[step + 1])
                /\ edges' = ExecuteStepEdges(es, queue[step + 1], graphType)
                /\ orderList' = ExecuteStepOrder(log, ns, queue[step + 1])
                /\ currentStep' = step
           ELSE /\ nodes' = ns
                /\ edges' = es
                /\ orderList' = log
                /\ currentStep' = step
        /\ UNCHANGED <<adjacencyList, startNode, nodeIdCounter, selectVars>>

StepTraversal ==
    LET fresh == Len(animationQueue) = 0 /\ startNode # Null
        queue == IF fresh THEN Materialize(algorithm, nodes, adjacencyList, startNode)
                 ELSE animationQueue
        ns == IF fresh THEN ResetNodes(nodes) ELSE nodes
        es == IF fresh THEN ResetEdges(edges) ELSE edges
        log == IF fresh THEN <<>> ELSE orderList
        step == IF fresh THEN 0 ELSE currentStep
    IN  /\ animationQueue' = queue
        /\ isRunning' = IF fresh THEN TRUE ELSE isRunning
        /\ isPaused' = IF fresh THEN TRUE ELSE isPaused
        /\ loops' = IF fresh THEN Outlive(loops) ELSE loops
        /\ IF step < Len(queue)
           THEN /\ nodes' = ExecuteStepNodes(ns, queue[step + 1])
                /\ edges' = ExecuteStepEdges(es, queue[step + 1], graphType)
                /\ orderList' = ExecuteStepOrder(log, ns, queue[step + 1])
                /\ currentStep' = step + 1
           ELSE /\ nodes' = ns
                /\ edges' = es
                /\ orderList' = log
                /\ currentStep' = step
        /\ UNCHANGED <<adjacencyList, startNode, nodeIdCounter, selectVars>>

Next ==
    \/ AddNode
    \/ CreateEdge
    \/ SetStartNode
    \/ DeleteNode
    \/ SetGraphType
    \/ SetAlgorithm
    \/ ClearGraph
    \/ LoadSampleGraph
    \/ StartTraversal
    \/ RunAnimation
    \/ TogglePause
    \/ StepTraversal
    \/ ResetTraversal

Spec == Init /\ [][Next]_vars

(***************************************************************************)
(* Playback over a graph the editing operations have built: PlayNodes      *)
(* addNode calls, then up to PlayEdges createEdge requests under one       *)
(* direction mode, with the weight the edge-creation handler passes        *)
(* (DefaultWeight unless the weighted algorithm is selected).              *)
(***************************************************************************)
RECURSIVE BuildEdges(_, _, _)
\* the edge list and the adjacency projection after the requests reqs, in order
BuildEdges(reqs, n, gt) ==
    IF reqs = <<>> THEN [edges |-> <<>>, adj |-> BuildAdj(n)]
    ELSE LET before == BuildEdges(SubSeq(reqs, 1, Len(reqs) - 1), n, gt)
             r == reqs[Len(reqs)]
         IN  [edges |-> CreateEdgeEdges(before.edges, r[1], r[2], r[3], gt),
              adj |-> CreateEdgeAdj(before.adj, before.edges, r[1], r[2], r[3], gt)]

Requests(algo, n, k) ==
    LET ids == 0..(n - 1)
        ws == IF algo = "dijkstra" THEN Weights ELSE {DefaultWeight}
        one == {<<from, to, weight>> : from \in ids, to \in ids, weight \in ws}
        ok == {r \in one : r[1] # r[2]}
    IN  UNION {[1..j -> ok] : j \in 0..k}

\* no run has been started: the controller as the declarations leave it
Idle ==
    /\ isRunning = FALSE
    /\ isPaused = FALSE
    /\ animationQueue = <<>>
    /\ currentStep = 0
    /\ orderList = <<>>
    /\ loops = NoLoops

\* n nodes, up to k edges each request of which was accepted, any start node
BuiltGraph(n, k) ==
    /\ graphType \in GraphTypes
    /\ algorithm \in Algorithms
    /\ \E reqs \in Requests(algorithm, n, k) :
          LET g == BuildEdges(reqs, n, graphType)
          IN  /\ Len(g.edges) = Len(reqs)
              /\ edges = g.edges
              /\ adjacencyList = g.adj
    /\ nodes = BuildNodes(n)
    /\ nodeIdCounter = n
    /\ startNode \in 0..(n - 1)

PlayInit == BuiltGraph(PlayNodes, PlayEdges) /\ Idle

PlayNext ==
    \/ LoadSampleGraph
    \/ StartTraversal
    \/ RunAnimation
    \/ TogglePause
    \/ StepTraversal
    \/ ResetTraversal
    \/ DeleteNode

PlaySpec == PlayInit /\ [][PlayNext]_vars

(***************************************************************************)
(* The generators alone: a built graph, stepped through event by event.    *)
(***************************************************************************)
TravInit == BuiltGraph(TravNodes, TravEdges) /\ Idle

TravNext == StepTraversal

TravSpec == TravInit /\ [][TravNext]_vars

(***************************************************************************)
(* Timers fire: a pending timer of a loop is not postponed for ever.       *)
(***************************************************************************)
LiveSpec == Init /\ [][Next]_vars /\ WF_vars(RunAnimation)

(***************************************************************************)
(* Claims about the animation controller.                                  *)
(***************************************************************************)
\* an event is applied by a tick or a step of the run in progress
EventApplied ==
    /\ animationQueue # <<>>
    /\ animationQueue' = animationQueue
    /\ currentStep' = currentStep + 1

\* C1: at most one playback loop (one runAnimation call with its pending
\* timer) is alive in every reachable state, whatever the interleaving of
\* start, pause/resume, step, reset, clearGraph and timer wake-ups.
C1_SinglePlaybackLoop == LiveLoops(loops) <= 1

\* C2: a loop whose run was ended by reset observes the cancellation at its
\* next wake-up: it leaves and applies no further event, whatever was invoked
\* between the reset and the wake-up.
C2_ResetCancelsLoop ==
    [][Wake("stale") =>
          /\ loops'.stale = loops.stale - 1
          /\ UNCHANGED <<nodes, edges, orderList, currentStep>>]_vars

\* C3: once resumed (running, not paused) with the cursor below the length of
\* the sequence, timed ticking goes on: unless paused again, the cursor
\* reaches the length of the sequence (a reset leaves both at 0).
C3_ResumeContinuesTicking ==
    (isRunning /\ ~isPaused /\ currentStep < Len(animationQueue))
        ~> (currentStep = Len(animationQueue) \/ isPaused)

\* C4: when the cursor has reached the length of the materialized sequence,
\* by a timed tick or by a step, the running flag is cleared, so that a later
\* start is accepted.
C4_FinishClearsRunning ==
    (animationQueue # <<>> /\ currentStep = Len(animationQueue)) ~> ~isRunning

(***************************************************************************)
(* Reference notions the claims are stated against.  They are defined on   *)
(* the adjacency projection by fixpoints, independently of the generators. *)
(***************************************************************************)
AdjNodes(adj, a) == {adj[a][i].node : i \in DOMAIN adj[a]}
Successors(adj, S) == UNION {AdjNodes(adj, a) : a \in S \cap DOMAIN adj}

RECURSIVE ReachFrom(_, _)
ReachFrom(adj, S) ==
    LET T == S \cup Successors(adj, S)
    IN  IF T = S THEN S ELSE ReachFrom(adj, T)

\* the nodes an adjacency path leads to from start (start included)
Reachable(adj, start) == ReachFrom(adj, {start})

RECURSIVE HopFrom(_, _, _, _, _)
HopFrom(adj, seen, frontier, d, n) ==
    IF n \in frontier THEN d
    ELSE IF frontier = {} THEN Infinity
    ELSE HopFrom(adj, seen \cup frontier,
                 Successors(adj, frontier) \ (seen \cup frontier), d + 1, n)

\* the least number of adjacency edges from start to n
HopCount(adj, start, n) == HopFrom(adj, {}, {start}, 0, n)

MinOf(S) == CHOOSE x \in S : \A y \in S : x <= y

\* the distance the set D of <<node, distance>> pairs gives to v
DistIn(D, v) == (CHOOSE p \in D : p[1] = v)[2]

\* the sums d + w over the pairs <<u, d>> of D and the adjacency entries (v, w) of u
Offers(adj, D, v) ==
    UNION {{p[2] + adj[p[1]][i].weight :
                i \in {j \in DOMAIN adj[p[1]] : adj[p[1]][j].node = v}} :
              p \in {q \in D : q[2] # Infinity}}

RECURSIVE PathSums(_, _, _)
\* D after `rounds` rounds in which every node takes the least offer made to it
PathSums(adj, D, rounds) ==
    IF rounds = 0 THEN D
    ELSE PathSums(adj,
                  {<<p[1], LET c == Offers(adj, D, p[1])
                                    \cup (IF p[2] # Infinity THEN {p[2]} ELSE {})
                           IN  IF c = {} THEN Infinity ELSE MinOf(c)>> : p \in D},
                  rounds - 1)

\* the least sum of weights over the adjacency paths from start to each node
\* (Infinity if there is none), as a set of <<node, distance>> pairs
ShortestDistances(adj, start) ==
    PathSums(adj, {<<v, IF v = start THEN 0 ELSE Infinity>> : v \in DOMAIN adj},
             Cardinality(DOMAIN adj))

VisitIndexes(events) == {i \in DOMAIN events : events[i].type = "visit"}
EnqueueIndexes(events) == {i \in DOMAIN events : events[i].type = "enqueue"}
VisitedNodes(events) == {events[i].node : i \in VisitIndexes(events)}

\* the ids an event names: its target and the endpoints of its edge
EventRefs(step) ==
    {step.node} \cup (IF HasEdge(step) THEN {step.edge.from, step.edge.to} ELSE {})

RECURSIVE Replay(_, _)
\* nodes, edges and log after the first k events are applied to the reset graph
Replay(events, k) ==
    IF k = 0
    THEN [nodes |-> ResetNodes(nodes), edges |-> ResetEdges(edges), log |-> <<>>]
    ELSE LET p == Replay(events, k - 1)
         IN  [nodes |-> ExecuteStepNodes(p.nodes, events[k]),
              edges |-> ExecuteStepEdges(p.edges, events[k], graphType),
              log |-> ExecuteStepOrder(p.log, p.nodes, events[k])]

(***************************************************************************)
(* Claims about playback over a built graph (PlaySpec).                    *)
(***************************************************************************)
\* no node of the built graph has been deleted
Undisturbed == Len(nodes) = PlayNodes

\* C5: for the same materialized sequence, every state with the cursor at N
\* has the nodes' visual states and distances, the edges' visual states and
\* the traversal-order log of the first N events applied in order to the
\* reset graph, whether the N events were applied by step() from Idle or by
\* start() and the ticks of the loop, paused or not.
C5_StepEqualsPlayback ==
    (Undisturbed /\ animationQueue # <<>>) =>
        LET queue == Materialize(algorithm, nodes, adjacencyList, startNode)
            r == Replay(queue, currentStep)
        IN  /\ animationQueue = queue
            /\ currentStep \in 1..Len(queue)
            /\ nodes = r.nodes
            /\ edges = r.edges
            /\ orderList = r.log

\* reached by step() alone: paused at the third event or later with no loop
C5_Witness ==
    /\ Undisturbed
    /\ isRunning /\ isPaused /\ LiveLoops(loops) = 0
    /\ currentStep >= 3
    /\ Len(orderList) >= 2

\* the same cursor reached by start() and ticks of its loop, then paused
C5_WitnessLoop ==
    /\ Undisturbed
    /\ isRunning /\ isPaused /\ loops = [current |-> 1, stale |-> 0]
    /\ currentStep >= 3
    /\ Len(orderList) >= 2

\* the ids an event names whose node was offered (an enqueue event of it lies
\* before the cursor) and deleted before any visit of it was applied: the node
\* is gone and its label (the label of the id-th node built) is not in the
\* traversal-order log
StaleRefs(step) ==
    {m \in EventRefs(step) \ NodeIds(nodes) :
        /\ \E i \in EnqueueIndexes(animationQueue) :
              i <= currentStep /\ animationQueue[i].node = m
        /\ \A i \in DOMAIN orderList : orderList[i] # Label(m)}

\* C9: an event of the materialized sequence that names the id of a node
\* deleted during the run before it was visited (as its target or as an
\* endpoint of its edge) is applied as a no-op: beyond the demotion of the
\* current node it changes no node, no edge and no log entry.
C9_StaleEventIsNoOp ==
    [][(EventApplied /\ StaleRefs(animationQueue[currentStep + 1]) # {})
          => (nodes' = Demote(nodes) /\ edges' = edges /\ orderList' = orderList)]_vars

(***************************************************************************)
(* Claims about the generators (TravSpec).                                 *)
(***************************************************************************)
\* the visit events of the sequence carry the distances D
VisitsCarry(events, D) ==
    \A i \in VisitIndexes(events) : events[i].distance = DistIn(D, events[i].node)

\* the nodes in `within` have the distances D
NodesCarry(ns, D, within) ==
    \A i \in DOMAIN ns : ns[i].id \in within => ns[i].distance = DistIn(D, ns[i].id)

\* C6: in a shortest-path run every visit event carries the least sum of
\* weights over the adjacency paths from start to its node, and once the run
\* is played to its end the distance field of every reachable node is that sum.
C6_ShortestDistances ==
    (algorithm = "dijkstra" /\ animationQueue # <<>>) =>
        /\ VisitsCarry(animationQueue, ShortestDistances(adjacencyList, startNode))
        /\ currentStep = Len(animationQueue) =>
              NodesCarry(nodes, ShortestDistances(adjacencyList, startNode),
                         Reachable(adjacencyList, startNode))

\* a finished shortest-path run in which a node was first offered a distance
\* larger than the one it was settled with
C6_Witness ==
    /\ algorithm = "dijkstra"
    /\ animationQueue # <<>>
    /\ currentStep = Len(animationQueue)
    /\ \E i \in EnqueueIndexes(animationQueue) :
          \E j \in DOMAIN nodes :
              /\ nodes[j].id = animationQueue[i].node
              /\ nodes[j].distance < animationQueue[i].distance

\* the nodes of the visit events, in order, have non-decreasing values of hops
NonDecreasing(visits, hops) ==
    \A i \in DOMAIN visits, j \in DOMAIN visits : i < j => hops[visits[i]] <= hops[visits[j]]

VisitOrder(events) == EventNodes(FilterSeq(events, {events[i] : i \in VisitIndexes(events)}))

\* C7: the visit events of bfs come in non-decreasing hop-count from start.
C7_BfsHopOrder ==
    (algorithm = "bfs" /\ animationQueue # <<>>) =>
        NonDecreasing(VisitOrder(animationQueue),
                      [n \in VisitedNodes(animationQueue) |->
                          HopCount(adjacencyList, startNode, n)])

\* a bfs sequence in which a node was enqueued twice before its visit
C7_Witness ==
    /\ algorithm = "bfs"
    /\ \E i \in EnqueueIndexes(animationQueue), j \in EnqueueIndexes(animationQueue) :
          /\ i < j
          /\ animationQueue[i].node = animationQueue[j].node
    /\ Cardinality(VisitedNodes(animationQueue)) >= 3

\* C8: for each of the three algorithms the nodes that get a visit event are
\* exactly the nodes reachable from start through the adjacency projection.
C8_VisitedIsReachable ==
    animationQueue # <<>> =>
        VisitedNodes(animationQueue) = Reachable(adjacencyList, startNode)

\* a sequence over a graph with a part start does not reach
C8_Witness ==
    /\ animationQueue # <<>>
    /\ Cardinality(VisitedNodes(animationQueue)) = 3
    /\ Cardinality(NodeIds(nodes)) = 4
    /\ \E i \in DOMAIN edges : edges[i].from \notin VisitedNodes(animationQueue)

(***************************************************************************)
(* Claims about the graph store (Spec).                                    *)
(***************************************************************************)
AdjCount(adj, a, b) == Cardinality({i \in DOMAIN adj[a] : adj[a][i].node = b})

\* C10: the adjacency projection agrees with the edge set under the active
\* direction mode: b is listed once among the neighbours of a iff an edge
\* stored matches (a, b) under the mode, and with that edge's weight.
C10_AdjacencyMatchesEdges ==
    /\ DOMAIN adjacencyList = NodeIds(nodes)
    /\ \A a \in NodeIds(nodes), b \in NodeIds(nodes) :
          LET e == FindEdge(edges, a, b, graphType)
          IN  /\ AdjCount(adjacencyList, a, b) = IF e = 0 THEN 0 ELSE 1
              /\ \A i \in DOMAIN adjacencyList[a] :
                    adjacencyList[a][i].node = b => adjacencyList[a][i].weight = edges[e].weight

\* the stored edges that match (a, b) under the mode
MatchingEdges(es, a, b, gt) == {i \in DOMAIN es : EdgeMatches(es[i], a, b, gt)}

\* C11: in undirected mode a createEdge request between two nodes that already
\* have an edge between them, in either direction and with any weight, leaves
\* the edge list and the adjacency projection as they are: the pair has
\* exactly one edge and exactly one adjacency entry in each direction.
C11_DuplicateEdgeRejected ==
    graphType = "undirected" =>
        \A a \in NodeIds(nodes), b \in NodeIds(nodes) :
            (a # b /\ FindEdge(edges, a, b, graphType) # 0) =>
                /\ \A w \in Weights :
                      /\ CreateEdgeEdges(edges, a, b, w, graphType) = edges
                      /\ CreateEdgeAdj(adjacencyList, edges, a, b, w, graphType)
                            = adjacencyList
                /\ Cardinality(MatchingEdges(edges, a, b, graphType)) = 1
                /\ AdjCount(adjacencyList, a, b) = 1
                /\ AdjCount(adjacencyList, b, a) = 1

\* the ids the graph store refers to: edge endpoints, adjacency keys,
\* adjacency entries and the start designation
StoreRefs ==
    {edges[i].from : i \in DOMAIN edges}
        \cup {edges[i].to : i \in DOMAIN edges}
        \cup DOMAIN adjacencyList
        \cup UNION {AdjNodes(adjacencyList, a) : a \in DOMAIN adjacencyList}
        \cup (IF startNode = Null THEN {} ELSE {startNode})

\* C12: no dangling reference after deleteNode, hence after any sequence of
\* editing operations: every edge endpoint, adjacency key, adjacency entry
\* and the start designation refers to a node that exists.
C12_NoDanglingReference == StoreRefs \subseteq NodeIds(nodes)

\* the start node of the materialized sequence, which had an edge to a node
\* that is still there, was deleted: the designation is cleared and the
\* events of the sequence are all that is left of the node and its edge
C12_Witness ==
    /\ animationQueue # <<>>
    /\ animationQueue[1].node \notin NodeIds(nodes)
    /\ startNode = Null
    /\ \E i \in EnqueueIndexes(animationQueue) :
          /\ animationQueue[i].edge.from = animationQueue[1].node
          /\ animationQueue[i].edge.to \in NodeIds(nodes)

(***************************************************************************)
(* Claims about event application (PlaySpec).                              *)
(***************************************************************************)
\* C13: applying an enqueue event that carries a distance sets the distance
\* of its target node to that distance whatever the node's distance and
\* visual state were (in particular when the node is already inQueue), and
\* raises the visual state only from unvisited to inQueue.
C13_EnqueueSetsDistance ==
    [][LET step == animationQueue[currentStep + 1]
           i == FindNode(nodes, step.node)
       IN  (/\ Undisturbed
            /\ EventApplied
            /\ step.type = "enqueue"
            /\ HasDistance(step)
            /\ i # 0)
           => /\ nodes'[i].distance = step.distance
              /\ nodes'[i].state = IF nodes[i].state = "unvisited" THEN "inQueue"
                                   ELSE Demote(nodes)[i].state]_vars

CurrentNodes(ns) == {i \in DOMAIN ns : ns[i].state = "current"}

\* C14: at most one node has visual state current in every reachable state,
\* whatever the interleaving of ticks, steps, pause/resume, resets and graph
\* edits: every event application first demotes the current node to visited.
C14_OneCurrentNode == Cardinality(CurrentNodes(nodes)) <= 1

\* a visit was applied while another node was current: that node is visited now
C14_Witness ==
    /\ Cardinality(CurrentNodes(nodes)) = 1
    /\ \E i \in DOMAIN nodes : nodes[i].state = "visited"
    /\ Len(orderList) >= 2

\* C15: while the controller is paused no timed tick applies an event or
\* advances the cursor, also when the pause was requested while the loop was
\* waiting on its tick delay: a wake-up of a loop leaves the cursor, the log
\* and every visual state and distance as they are, so that they change only
\* by step(), reset() or clearGraph until the next resume.
C15_NoTickWhilePaused ==
    [][(isPaused /\ RunAnimation) =>
          UNCHANGED <<nodes, edges, orderList, currentStep>>]_vars

\* paused in the middle of the sequence while the loop waits on its timer
C15_Witness ==
    /\ isRunning /\ isPaused
    /\ loops.current = 1
    /\ 0 < currentStep /\ currentStep < Len(animationQueue)

\* the edges as createEdge stored them
AsCreated(es) ==
    IF es = <<>> THEN <<>>
    ELSE [i \in DOMAIN es |->
            [from |-> es[i].from, to |-> es[i].to, weight |-> es[i].weight,
             state |-> "default"]]

RECURSIVE Played(_, _, _)
\* the nodes ns and edges es after the events are applied to them in order
Played(ns, es, events) ==
    IF events = <<>> THEN [nodes |-> ns, edges |-> es]
    ELSE Played(ExecuteStepNodes(ns, Head(events)),
                ExecuteStepEdges(es, Head(events), graphType),
                Tail(events))

\* every run over the graph has the sequence and the final states of `first`
RunsRepeat(first, final) ==
    /\ animationQueue = first
    /\ currentStep = Len(animationQueue) =>
          (nodes = final.nodes /\ edges = final.edges)

\* C16: every run of the same algorithm from the same start over the
\* unchanged graph, the first one and each one that follows a reset, has the
\* event sequence of the first run over the graph as it was built, and played
\* to its end it leaves every node with the visual state and distance, and
\* every edge with the visual state, that the first run left.
C16_RunsRepeat ==
    (Undisturbed /\ animationQueue # <<>>) =>
        RunsRepeat(Materialize(algorithm, BuildNodes(PlayNodes), adjacencyList, startNode),
                   Played(BuildNodes(PlayNodes), AsCreated(edges),
                          Materialize(algorithm, BuildNodes(PlayNodes), adjacencyList,
                                      startNode)))

\* a run played to its end while a loop of a run that was reset is still alive
C16_Witness ==
    /\ Undisturbed
    /\ animationQueue # <<>>
    /\ currentStep = Len(animationQueue)
    /\ loops.stale >= 1
    /\ Len(orderList) >= 2

\* the event at index i of the sequence
IsEvent(events, i, type, node, distance) ==
    /\ i \in DOMAIN events
    /\ events[i].type = type
    /\ events[i].node = node
    /\ events[i].distance = distance

\* the graph A(0)->B(1) weight 1, A->C(2) weight 4, B->C weight 1, directed,
\* with start A and the shortest-path algorithm selected
Scenario ==
    /\ graphType = "directed"
    /\ algorithm = "dijkstra"
    /\ startNode = 0
    /\ Undisturbed
    /\ AsCreated(edges) =
          <<[from |-> 0, to |-> 1, weight |-> 1, state |-> "default"],
            [from |-> 0, to |-> 2, weight |-> 4, state |-> "default"],
            [from |-> 1, to |-> 2, weight |-> 1, state |-> "default"]>>

\* C17: over the scenario graph the shortest-path sequence starts with
\* setDistance(A,0), then enqueue(B,1) and enqueue(C,4), then visit(A,0);
\* B is visited before C; and C's distance at the end of the run is 2.
C17_ScenarioSequence ==
    (Scenario /\ animationQueue # <<>>) =>
        /\ IsEvent(animationQueue, 1, "setDistance", 0, 0)
        /\ IsEvent(animationQueue, 2, "enqueue", 1, 1)
        /\ IsEvent(animationQueue, 3, "enqueue", 2, 4)
        /\ IsEvent(animationQueue, 4, "visit", 0, 0)
        /\ \E i \in VisitIndexes(animationQueue), j \in VisitIndexes(animationQueue) :
              i < j /\ animationQueue[i].node = 1 /\ animationQueue[j].node = 2
        /\ currentStep = Len(animationQueue) => nodes[FindNode(nodes, 2)].distance = 2

(***************************************************************************)
(* Claims about the controller's preconditions (Spec).                     *)
(***************************************************************************)
\* C18: start() with no start node designated is rejected and mutates no
\* state: the running and paused flags, the cursor, the materialized
\* sequence, the visual states and distances of nodes and edges and the
\* traversal-order log are unchanged.
C18_StartWithoutStartNode ==
    [][(startNode = Null /\ StartTraversal) => UNCHANGED vars]_vars

\* no start node is designated, no run is in progress, and the sequence, the
\* log and the visual state of a node of an earlier run are still there
C18_Witness ==
    /\ startNode = Null
    /\ ~isRunning
    /\ animationQueue # <<>>
    /\ orderList # <<>>
    /\ \E i \in DOMAIN nodes : nodes[i].state # "unvisited"

(***************************************************************************)
(* Claims about the order of the visit events (TravSpec).                  *)
(***************************************************************************)
SeqRange(s) == {s[i] : i \in DOMAIN s}

RECURSIVE PreorderFrom(_, _, _)
RECURSIVE PreorderAll(_, _, _)
\* recursive depth-first search: v is visited unless it was, then each of its
\* neighbours is explored in adjacency order; order is the visit order so far
PreorderFrom(adj, v, order) ==
    IF v \in SeqRange(order) THEN order
    ELSE PreorderAll(adj, Neighbors(adj, v), Append(order, v))

PreorderAll(adj, neighbors, order) ==
    IF neighbors = <<>> THEN order
    ELSE PreorderAll(adj, Tail(neighbors), PreorderFrom(adj, Head(neighbors).node, order))

\* the neighbours of the i-th node visited that no visit up to the i-th has reached
Unvisited(adj, visits, i) ==
    FilterSeq(EventNodes(Neighbors(adj, visits[i])),
              DOMAIN adj \ {visits[j] : j \in 1..i})

\* after each visit the next one is of the first unvisited neighbour, if any
FirstNeighbourNext(adj, visits) ==
    \A i \in 1..(Len(visits) - 1) :
        Unvisited(adj, visits, i) # <<>> => visits[i + 1] = Head(Unvisited(adj, visits, i))

\* C19: the visit events of dfs come in the preorder of a recursive
\* depth-first search that explores the neighbours of each node in adjacency
\* order: after a node is visited, the next node visited is its first
\* neighbour not yet visited, if it has one.
C19_DfsPreorder ==
    (algorithm = "dfs" /\ animationQueue # <<>>) =>
        /\ VisitOrder(animationQueue) = PreorderFrom(adjacencyList, startNode, <<>>)
        /\ FirstNeighbourNext(adjacencyList, VisitOrder(animationQueue))

\* a dfs sequence that visits the first neighbour of start, a node behind it,
\* and only then the second neighbour of start, which was offered first
C19_Witness ==
    /\ algorithm = "dfs"
    /\ Len(Neighbors(adjacencyList, startNode)) >= 2
    /\ LET visits == VisitOrder(animationQueue)
       IN  /\ Len(visits) = 4
           /\ visits[2] = adjacencyList[startNode][1].node
           /\ visits[4] = adjacencyList[startNode][2].node
           /\ animationQueue[2].node = visits[4]

\* the number of entries of the adjacency projection
AdjEntries(adj) ==
    Cardinality(UNION {{<<a, i>> : i \in DOMAIN adj[a]} : a \in DOMAIN adj})

\* C20: in the materialized sequence of each of the three algorithms, over
\* graphs with cycles too, a node has at most one visit event, every enqueue
\* event of the node comes before it (there may be several), and the
\* sequence is finite: at most one visit per node, one enqueue per adjacency
\* entry and the initial setDistance.
C20_SettledOnce ==
    animationQueue # <<>> =>
        /\ \A i \in VisitIndexes(animationQueue), j \in VisitIndexes(animationQueue) :
              animationQueue[i].node = animationQueue[j].node => i = j
        /\ \A i \in VisitIndexes(animationQueue), j \in EnqueueIndexes(animationQueue) :
              animationQueue[i].node = animationQueue[j].node => j < i
        /\ Len(animationQueue)
              <= Cardinality(NodeIds(nodes)) + AdjEntries(adjacencyList) + 1

\* a sequence over a graph with a cycle through start, in which a node was
\* enqueued twice before its visit
C20_Witness ==
    /\ animationQueue # <<>>
    /\ \E a \in VisitedNodes(animationQueue) \ {startNode} :
          startNode \in AdjNodes(adjacencyList, a)
    /\ \E i \in EnqueueIndexes(animationQueue), j \in EnqueueIndexes(animationQueue) :
          /\ i < j
          /\ animationQueue[i].node = animationQueue[j].node
          /\ \E k \in VisitIndexes(animationQueue) :
                j < k /\ animationQueue[k].node = animationQueue[i].node

(***************************************************************************)
(* Claims about the cursor (Spec).                                         *)
(***************************************************************************)
CursorInRange == 0 <= currentStep /\ currentStep <= Len(animationQueue)

\* the nodes and edges present before and after the step keep their visual
\* state and distance, and the log is as it was
NoEventApplied ==
    /\ orderList' = orderList
    /\ \A i \in DOMAIN nodes, j \in DOMAIN nodes' :
          nodes[i].id = nodes'[j].id =>
              /\ nodes[i].state = nodes'[j].state
              /\ nodes[i].distance = nodes'[j].distance
    /\ \A i \in DOMAIN edges, j \in DOMAIN edges' :
          (edges[i].from = edges'[j].from /\ edges[i].to = edges'[j].to) =>
              edges[i].state = edges'[j].state

\* the event at the cursor, and no other, is applied and the cursor moves past it
NextEventApplied ==
    /\ currentStep < Len(animationQueue)
    /\ currentStep' = currentStep + 1
    /\ nodes' = ExecuteStepNodes(nodes, animationQueue[currentStep + 1])
    /\ edges' = ExecuteStepEdges(edges, animationQueue[currentStep + 1], graphType)
    /\ orderList' = ExecuteStepOrder(orderList, nodes, animationQueue[currentStep + 1])

\* a new run over the same sequence begins: its first event is applied to the
\* reset graph
RunBegins ==
    /\ ~isRunning
    /\ currentStep' = 1
    /\ nodes' = ExecuteStepNodes(ResetNodes(nodes), animationQueue[1])
    /\ edges' = ExecuteStepEdges(ResetEdges(edges), animationQueue[1], graphType)
    /\ orderList' = ExecuteStepOrder(<<>>, ResetNodes(nodes), animationQueue[1])

\* while the sequence is kept, a step leaves the cursor and applies nothing,
\* or applies the event at the cursor and advances by one, or begins a run
InIndexOrder ==
    (animationQueue # <<>> /\ animationQueue' = animationQueue) =>
        \/ currentStep' = currentStep /\ NoEventApplied
        \/ NextEventApplied
        \/ RunBegins

\* C21: in every reachable state, whatever the interleaving of ticks (of one
\* or more live loops), step(), pause/resume, reset and clearGraph, the
\* cursor lies between 0 and the length of the materialized sequence, and
\* the events of a run are applied at most once each, in index order.
C21_CursorInOrder == []CursorInRange /\ [][InIndexOrder]_vars

\* two loops are alive and all events of a sequence of three or more have
\* been applied, each visit logged once
C21_Witness ==
    /\ loops.current = 1 /\ loops.stale >= 1
    /\ Len(animationQueue) >= 3
    /\ currentStep = Len(animationQueue)
    /\ Len(orderList) = Cardinality(VisitIndexes(animationQueue))

====
